---- MODULE Spec2Model ----
(***************************************************************************)
(* User-management backend: the actix-web handlers of routes/user.rs over  *)
(* PostgresUserRepository (infrastructure/persistence/user_repository.rs). *)
(* The `user` relation, the r2d2 connection pool and the request tasks are *)
(* the state; every handler and repository method is an action/operator.   *)
(***************************************************************************)
EXTENDS Integers, Sequences, FiniteSets, TLC

\* ---------------------------------------------------------------- bounds
NumReqs == 2        \* request tasks that may be in flight at once
MaxPoolSize == 2    \* largest max_size the r2d2 pool is built with
MaxId == 2          \* ids the `user.id` sequence hands out
MaxHashDepth == 2   \* nesting of bcrypt-of-bcrypt a request may start from

Reqs == 1..NumReqs
Ids == 1..MaxId

\* ---------------------------------------------------------------- values
\* Option<T>: None is the empty tuple, Some(x) the one-element tuple.
None == <<>>
Some(x) == <<x>>
unwrap(o) == o[1]

\* Passwords and hashes are tuples of strings, so that a hash (a string in
\* the program) can itself be hashed or submitted as a password.
Plaintexts == {<<"secret123">>, <<"hunter2">>}
Salts == {"salt1", "salt2"}

\* bcrypt::hash(password, DEFAULT_COST) with the salt it drew: the output
\* carries the version tag and the salt in front of the digest of the input.
bcrypt_hash(password, salt) == <<"$2b$", salt>> \o password

IsHash(h) == Len(h) >= 3 /\ h[1] = "$2b$" /\ h[2] \in Salts

\* bcrypt::verify(password, hash): Err on a malformed hash, else whether
\* hashing the password under the hash's own salt gives the hash.
bcrypt_verify(password, hash) ==
    IF ~IsHash(hash) THEN "Err"
    ELSE IF bcrypt_hash(password, hash[2]) = hash THEN "true" ELSE "false"

HashDepth(h) == IF IsHash(h) THEN (Len(h) - 1) \div 2 ELSE 0

\* ---------------------------------------------------------------- requests
NewUserFull == [pseudo |-> Some("alice"), email |-> Some("a@x.com"),
                password_hash |-> Some(<<"secret123">>), role |-> Some("user")]
NewUserNoPassword == [NewUserFull EXCEPT !.password_hash = None]
NewUserEmpty == [pseudo |-> None, email |-> None, password_hash |-> None, role |-> None]
OnlyPseudo == [NewUserEmpty EXCEPT !.pseudo = Some("bob")]
OnlyRole == [NewUserEmpty EXCEPT !.role = Some("admin")]
OnlyPassword(p) == [NewUserEmpty EXCEPT !.password_hash = Some(p)]

NoUser == [id |-> 0, pseudo |-> None, email |-> None, password_hash |-> None, role |-> None]

VARIABLES
    users,      \* the `user` relation: id -> row
    nextId,     \* next value of the id sequence
    poolSize,   \* max_size the pool was built with
    free,       \* connections of the pool no task holds
    req,        \* the request tasks in flight
    last,       \* how the request that ended last ended: its response, or its panic
    env,        \* process environment: variable name -> Option<value>
    loginOut,   \* outcome of the last PostgresUserRepository::login call
    created,    \* history: id -> the row create_user returned
    modified,   \* history: ids an update_user call has written
    deleted,    \* history: ids a delete_user call has removed
    submitted,  \* history: id -> Option<password> of the request that last wrote the row
    acked       \* history: id -> per column, the value of the last request answered 200 that supplied it

vars == <<users, nextId, poolSize, free, req, last, env, loginOut, created, modified, deleted, submitted, acked>>

\* A request task before its handler is entered / after it has ended.
Idle == [pc |-> "idle", kind |-> "none", user_id |-> 0, query |-> NewUserEmpty,
         user_to_update |-> NoUser, held |-> 0, afterDelete |-> FALSE]

NoResponse == [kind |-> "none", user_id |-> 0, query |-> NewUserEmpty,
               outcome |-> "none", status |-> 0, body |-> {}, count |-> 0,
               afterDelete |-> FALSE]

Ended(r) == req[r].pc = "idle"

\* ---------------------------------------------------------------- repository
Ok(row, db) == [result |-> "Ok", error |-> "none", row |-> row, db |-> db, count |-> 0]
Err(e, db) == [result |-> "Err", error |-> e, row |-> NoUser, db |-> db, count |-> 0]
Panicked(db) == [result |-> "Panic", error |-> "none", row |-> NoUser, db |-> db, count |-> 0]

Insert(db, row) == [i \in DOMAIN db \cup {row.id} |-> IF i = row.id THEN row ELSE db[i]]
\* (mutant) delete without its filter: every row goes.
RemoveAll(db, user_id) == [i \in {} |-> NoUser]

Remove(db, user_id) == [i \in DOMAIN db \ {user_id} |-> db[i]]

\* (mutant) create_user storing the submitted password instead of its hash.
InsertValuesPlain(new_user, hashed_password) ==
    [pseudo |-> new_user.pseudo, email |-> new_user.email,
     password_hash |-> new_user.password_hash, role |-> new_user.role]

\* The NewUserObject create_user hands to insert_into(user).values(..).
InsertValues(new_user, hashed_password) ==
    [pseudo |-> new_user.pseudo, email |-> new_user.email,
     password_hash |-> Some(hashed_password), role |-> new_user.role]

WithId(id, v) == [id |-> id, pseudo |-> v.pseudo, email |-> v.email,
                  password_hash |-> v.password_hash, role |-> v.role]

\* fn create_user: unwrap of an absent password panics; the insert returns the
\* stored row with the id the sequence generated, or the database error.
create_user(db, id, new_user, salt, dbfail) ==
    IF new_user.password_hash = None THEN Panicked(db)
    ELSE LET hashed_password == bcrypt_hash(unwrap(new_user.password_hash), salt)
             row == WithId(id, InsertValues(new_user, hashed_password))
         IN IF dbfail THEN Err("DatabaseError", db) ELSE Ok(row, Insert(db, row))

\* (mutant) get_user_by_id without its filter: the first row of the relation.
get_user_by_id_unfiltered(db, user_id, dbfail) ==
    IF dbfail THEN Err("DatabaseError", db)
    ELSE IF DOMAIN db # {} THEN Ok(db[CHOOSE i \in DOMAIN db : \A j \in DOMAIN db : i <= j], db)
    ELSE Err("NotFound", db)

\* fn get_user_by_id: .first() gives Error::NotFound when no row matches.
get_user_by_id(db, user_id, dbfail) ==
    IF dbfail THEN Err("DatabaseError", db)
    ELSE IF user_id \in DOMAIN db THEN Ok(db[user_id], db) ELSE Err("NotFound", db)

\* fn get_all_users
get_all_users(db, dbfail) ==
    IF dbfail THEN [Err("DatabaseError", db) EXCEPT !.row = {}]
    ELSE [Ok(NoUser, db) EXCEPT !.row = {db[i] : i \in DOMAIN db}]

\* fn delete_user: execute() returns the number of rows deleted.
delete_user(db, user_id, dbfail) ==
    IF dbfail THEN Err("DatabaseError", db)
    ELSE [Ok(NoUser, Remove(db, user_id)) EXCEPT
            !.count = Cardinality({i \in DOMAIN db : db[i].id = user_id})]

\* The columns update_user sets.
SetColumns(user_object, hashed_password) ==
    [id |-> user_object.id, pseudo |-> user_object.pseudo, email |-> user_object.email,
     password_hash |-> Some(hashed_password), role |-> user_object.role]

\* fn update_user: hashes user_object.password_hash whatever it holds, then
\* overwrites every column of the row with that id; get_result gives NotFound
\* when the update matched no row.
update_user(db, user_object, salt, dbfail) ==
    IF user_object.password_hash = None THEN Panicked(db)
    ELSE LET hashed_password == bcrypt_hash(unwrap(user_object.password_hash), salt)
             row == SetColumns(user_object, hashed_password)
         IN IF dbfail THEN Err("DatabaseError", db)
            ELSE IF user_object.id \in DOMAIN db THEN Ok(row, Insert(db, row))
            ELSE Err("NotFound", db)

\* ---------------------------------------------------------------- login
\* The name login passes to env::var: the literal spans two source lines, so
\* it starts with a line break and eight blanks.
LoginEnvKey == "\n        JWT_SECRET"
JwtSecretKey == "JWT_SECRET"

\* Claims { sub, exp } encoded under EncodingKey::from_secret(secret_key).
ClaimsExp == "10000000000"   \* the i64 literal, beyond the integers TLC holds
encode(sub, secret_key) == [sub |-> sub, exp |-> ClaimsExp, key |-> secret_key]
NoToken == [sub |-> "", exp |-> "", key |-> ""]

LoginResult(result, error, token) == [result |-> result, error |-> error, token |-> token]

\* fn login, given the row .first() found (NoUser when none matched).
login(environment, found, p_password, dbfail) ==
    IF environment[LoginEnvKey] = None THEN LoginResult("Panic", "none", NoToken)
    ELSE IF dbfail THEN LoginResult("Err", "DatabaseError", NoToken)
    ELSE IF found = NoUser THEN LoginResult("Err", "NotFound", NoToken)
    ELSE IF found.password_hash = None THEN LoginResult("Panic", "none", NoToken)
    ELSE LET v == bcrypt_verify(p_password, unwrap(found.password_hash))
         IN IF v = "Err" THEN LoginResult("Panic", "none", NoToken)
            ELSE IF v = "false" THEN LoginResult("Err", "NotFound", NoToken)
            ELSE IF found.email = None THEN LoginResult("Panic", "none", NoToken)
            ELSE LoginResult("Ok", "none",
                             encode(unwrap(found.email), unwrap(environment[LoginEnvKey])))

\* ---------------------------------------------------------------- handlers
InFlightCreates == Cardinality({r \in Reqs : req[r].kind = "create"})

\* (mutant) A connection that is forgotten instead of dropped.
DropConnLeak(held) == 0

\* Connections that go back to the pool when the PooledConnection local of
\* with_user_service is dropped: at its return, and while a panic unwinds.
DropConn(held) == held

\* How a request ended: the HttpResponse the closure returned (status, JSON
\* body), or status 0 when the closure panicked and nothing was answered.
Ending(r, outcome, status, body, count) ==
    [kind |-> req[r].kind, user_id |-> req[r].user_id, query |-> req[r].query,
     outcome |-> outcome, status |-> status, body |-> body, count |-> count,
     afterDelete |-> req[r].afterDelete]

Respond(r, outcome, status, body) == Ending(r, outcome, status, body, 0)
Unwind(r, outcome) == Ending(r, outcome, 0, {}, 0)

\* The task's handler has returned or unwound: conn is dropped.
EndTask(r) ==
    /\ req' = [req EXCEPT ![r] = Idle]
    /\ free' = free + DropConn(req[r].held)

Put(f, k, v) == [i \in DOMAIN f \cup {k} |-> IF i = k THEN v ELSE f[i]]

\* A request arrives and its handler is entered.
Start(r, kind, user_id, query) ==
    /\ Ended(r)
    /\ kind = "create" => nextId + InFlightCreates <= MaxId
    /\ req' = [req EXCEPT ![r] = [Idle EXCEPT !.pc = "pool", !.kind = kind,
                                             !.user_id = user_id, !.query = query,
                                             !.afterDelete = user_id \in deleted]]
    /\ UNCHANGED <<users, nextId, poolSize, free, last, env, loginOut, created, modified, deleted,
                   submitted, acked>>

\* with_user_service: pool.get() hands out an idle connection.
PoolGet(r) ==
    /\ req[r].pc = "pool"
    /\ free > 0
    /\ free' = free - 1
    /\ req' = [req EXCEPT ![r].pc = "svc", ![r].held = req[r].held + 1]
    /\ UNCHANGED <<users, nextId, poolSize, last, env, loginOut, created, modified, deleted,
                   submitted, acked>>

\* with_user_service: pool.get() gave up waiting (every connection in use,
\* or none could be established); the `?` returns ErrorInternalServerError.
PoolGetErr(r) ==
    /\ req[r].pc = "pool"
    /\ last' = Respond(r, "PoolError", 500, {})
    /\ EndTask(r)
    /\ UNCHANGED <<users, nextId, poolSize, env, loginOut, created, modified, deleted, submitted, acked>>

\* get_user_handler: Ok -> 200 with the user, any Err -> 404.
get_user_handler(r) ==
    /\ req[r].pc = "svc" /\ req[r].kind = "get"
    /\ \E dbfail \in BOOLEAN :
         LET res == get_user_by_id(users, req[r].user_id, dbfail)
         IN last' = IF res.result = "Ok" THEN Respond(r, "Ok", 200, {res.row})
                    ELSE Respond(r, res.error, 404, {})
    /\ EndTask(r)
    /\ UNCHANGED <<users, nextId, poolSize, env, loginOut, created, modified, deleted, submitted, acked>>

\* The sequence behind the generated `id` column: a value handed out is
\* never handed out again; a failed insert may or may not have drawn one.
nextval(seq, inserted, consumed) == IF inserted \/ consumed THEN seq + 1 ELSE seq

\* create_user_handler: Ok -> 200 with the stored user, Err -> 500.
create_user_handler(r) ==
    /\ req[r].pc = "svc" /\ req[r].kind = "create"
    /\ \E dbfail \in BOOLEAN, salt \in Salts, consumed \in BOOLEAN :
         LET res == create_user(users, nextId, req[r].query, salt, dbfail)
             ok == res.result = "Ok"
         IN /\ last' = IF ok THEN Respond(r, "Ok", 200, {res.row})
                       ELSE IF res.result = "Panic" THEN Unwind(r, "Panic")
                       ELSE Respond(r, res.error, 500, {})
            /\ users' = res.db
            /\ nextId' = nextval(nextId, ok, res.result = "Err" /\ consumed)
            /\ created' = IF ok THEN Put(created, res.row.id, res.row) ELSE created
            /\ submitted' = IF ok THEN Put(submitted, res.row.id, req[r].query.password_hash)
                            ELSE submitted
            /\ acked' = IF ok THEN Put(acked, res.row.id, req[r].query) ELSE acked
    /\ EndTask(r)
    /\ UNCHANGED <<poolSize, env, loginOut, modified, deleted>>

\* list_users_handler: Ok -> 200 with every user, Err -> 500.
list_users_handler(r) ==
    /\ req[r].pc = "svc" /\ req[r].kind = "list"
    /\ \E dbfail \in BOOLEAN :
         LET res == get_all_users(users, dbfail)
         IN last' = IF res.result = "Ok" THEN Respond(r, "Ok", 200, res.row)
                    ELSE Respond(r, res.error, 500, {})
    /\ EndTask(r)
    /\ UNCHANGED <<users, nextId, poolSize, env, loginOut, created, modified, deleted, submitted, acked>>

\* delete_user_handler: Ok(_) -> 200 whatever the count, Err -> 500.
delete_user_handler(r) ==
    /\ req[r].pc = "svc" /\ req[r].kind = "delete"
    /\ \E dbfail \in BOOLEAN :
         LET res == delete_user(users, req[r].user_id, dbfail)
         IN /\ last' = IF res.result = "Ok" THEN Ending(r, "Ok", 200, {}, res.count)
                       ELSE Respond(r, res.error, 500, {})
            /\ users' = res.db
            /\ deleted' = IF res.result = "Ok" /\ res.count > 0
                          THEN deleted \cup {req[r].user_id} ELSE deleted
    /\ EndTask(r)
    /\ UNCHANGED <<nextId, poolSize, env, loginOut, created, modified, submitted, acked>>

\* update_user_handler, lines 138-149: the supplied fields replace the
\* fetched ones, the others keep what was fetched.
Merge(user_to_update, query) ==
    [id |-> user_to_update.id,
     pseudo |-> IF query.pseudo # None THEN query.pseudo ELSE user_to_update.pseudo,
     email |-> IF query.email # None THEN query.email ELSE user_to_update.email,
     password_hash |-> IF query.password_hash # None THEN query.password_hash
                       ELSE user_to_update.password_hash,
     role |-> IF query.role # None THEN query.role ELSE user_to_update.role]

\* update_user_handler, first database step: get_user_by_id(..).unwrap().
update_user_handler_fetch(r) ==
    /\ req[r].pc = "svc" /\ req[r].kind = "update"
    /\ \E dbfail \in BOOLEAN :
         LET res == get_user_by_id(users, req[r].user_id, dbfail)
         IN IF res.result = "Ok"
            THEN /\ req' = [req EXCEPT ![r].pc = "fetched",
                                       ![r].user_to_update = Merge(res.row, req[r].query)]
                 /\ UNCHANGED <<free, last>>
            ELSE /\ last' = Unwind(r, res.error)
                 /\ EndTask(r)
    /\ UNCHANGED <<users, nextId, poolSize, env, loginOut, created, modified, deleted, submitted, acked>>

\* Per column, the value the clients were last told is stored.
Ack(old, query) ==
    [pseudo |-> IF query.pseudo # None THEN query.pseudo ELSE old.pseudo,
     email |-> IF query.email # None THEN query.email ELSE old.email,
     password_hash |-> old.password_hash,
     role |-> IF query.role # None THEN query.role ELSE old.role]

\* update_user_handler, second database step: update_user(user_to_update);
\* Ok -> 200 with the updated user, Err -> 500.
update_user_handler_write(r) ==
    /\ req[r].pc = "fetched" /\ req[r].kind = "update"
    /\ \E dbfail \in BOOLEAN, salt \in Salts :
         LET res == update_user(users, req[r].user_to_update, salt, dbfail)
             ok == res.result = "Ok"
         IN /\ last' = IF ok THEN Respond(r, "Ok", 200, {res.row})
                       ELSE IF res.result = "Panic" THEN Unwind(r, "Panic")
                       ELSE Respond(r, res.error, 500, {})
            /\ users' = res.db
            /\ modified' = IF ok THEN modified \cup {res.row.id} ELSE modified
            /\ submitted' = IF ok THEN Put(submitted, res.row.id, req[r].query.password_hash)
                            ELSE submitted
            /\ acked' = IF ok THEN Put(acked, res.row.id, Ack(acked[res.row.id], req[r].query))
                        ELSE acked
    /\ EndTask(r)
    /\ UNCHANGED <<nextId, poolSize, env, loginOut, created, deleted>>

\* fn login as a caller of the repository invokes it (no route reaches it):
\* .first() takes any one row whose email matches.
Login(p_email, p_password) ==
    /\ \E dbfail \in BOOLEAN :
         \E found \in (IF \E i \in DOMAIN users : users[i].email = Some(p_email)
                       THEN {users[i] : i \in {j \in DOMAIN users : users[j].email = Some(p_email)}}
                       ELSE {NoUser}) :
            loginOut' = [email |-> p_email, password |-> p_password, found |-> found,
                         out |-> login(env, found, p_password, dbfail)]
    /\ UNCHANGED <<users, nextId, poolSize, free, req, last, env, created, modified, deleted,
                   submitted, acked>>

\* ---------------------------------------------------------------- specification
StoredHashes == {unwrap(users[i].password_hash) : i \in DOMAIN users}

\* Passwords a client may put in a body: plain ones, and any hash a response
\* showed it.
Submittable == Plaintexts \cup {h \in StoredHashes : HashDepth(h) < MaxHashDepth}

\* A body without a password makes update_user hash the stored hash again.
MayRehash == \A h \in StoredHashes : HashDepth(h) < MaxHashDepth

CreateBodies == {NewUserFull, NewUserNoPassword}
UpdateBodies ==
    {OnlyPassword(p) : p \in Submittable} \cup (IF MayRehash THEN {OnlyPseudo, OnlyRole} ELSE {})
DisjointUpdates == IF MayRehash THEN {OnlyPseudo, OnlyRole} ELSE {}

NoLogin == [email |-> "", password |-> None, found |-> NoUser,
            out |-> LoginResult("none", "none", NoToken)]

\* The environments of a deployment: JWT_SECRET set as documented, and
\* possibly a variable under the name login reads.
Environment(jwt, other) ==
    [k \in {JwtSecretKey, LoginEnvKey} |-> IF k = JwtSecretKey THEN jwt ELSE other]
StandardEnv == Environment(Some("s3cr3t"), None)
Environments == {Environment(j, o) : j \in {None, Some("s3cr3t")}, o \in {None, Some("0ther")}}

InitWith(environment, size) ==
    /\ users = <<>>
    /\ nextId = 1
    /\ poolSize = size
    /\ free = size
    /\ req = [r \in Reqs |-> Idle]
    /\ last = NoResponse
    /\ env = environment
    /\ loginOut = NoLogin
    /\ created = <<>>
    /\ modified = {}
    /\ deleted = {}
    /\ submitted = <<>>
    /\ acked = <<>>

Init == InitWith(StandardEnv, MaxPoolSize)
InitConc == \E size \in 1..MaxPoolSize : InitWith(StandardEnv, size)
InitLogin == \E e \in Environments : InitWith(e, MaxPoolSize)

\* The ending recorded in `last` / `loginOut` has been looked at; the record
\* is cleared before the next step is taken.
Observe ==
    /\ last # NoResponse \/ loginOut # NoLogin
    /\ last' = NoResponse
    /\ loginOut' = NoLogin
    /\ UNCHANGED <<users, nextId, poolSize, free, req, env, created, modified, deleted, submitted, acked>>

Observed == last = NoResponse /\ loginOut = NoLogin

AllIdle == \A r \in Reqs : Ended(r)
FirstTask == CHOOSE r \in Reqs : \A t \in Reqs : r <= t

\* One client, one request at a time, every body.
Next ==
    \/ Observe
    \/ \E user_id \in Ids : Observed /\ Start(FirstTask, "get", user_id, NewUserEmpty)
    \/ \E query \in CreateBodies : Observed /\ Start(FirstTask, "create", 0, query)
    \/ Observed /\ Start(FirstTask, "list", 0, NewUserEmpty)
    \/ \E user_id \in Ids : Observed /\ Start(FirstTask, "delete", user_id, NewUserEmpty)
    \/ \E user_id \in Ids, query \in UpdateBodies : Observed /\ Start(FirstTask, "update", user_id, query)
    \/ Observed /\ PoolGet(FirstTask)
    \/ Observed /\ PoolGetErr(FirstTask)
    \/ Observed /\ get_user_handler(FirstTask)
    \/ Observed /\ create_user_handler(FirstTask)
    \/ Observed /\ list_users_handler(FirstTask)
    \/ Observed /\ delete_user_handler(FirstTask)
    \/ Observed /\ update_user_handler_fetch(FirstTask)
    \/ Observed /\ update_user_handler_write(FirstTask)

Spec == Init /\ [][Next]_vars

\* Requests handled concurrently by the NumReqs tasks over the shared pool.
NextConc ==
    \/ Observe
    \/ \E r \in Reqs, user_id \in Ids : Observed /\ Start(r, "get", user_id, NewUserEmpty)
    \/ \E r \in Reqs, query \in CreateBodies : Observed /\ Start(r, "create", 0, query)
    \/ \E r \in Reqs : Observed /\ Start(r, "list", 0, NewUserEmpty)
    \/ \E r \in Reqs, user_id \in Ids : Observed /\ Start(r, "delete", user_id, NewUserEmpty)
    \/ \E r \in Reqs, user_id \in Ids, query \in DisjointUpdates :
          Observed /\ Start(r, "update", user_id, query)
    \/ \E r \in Reqs : Observed /\ PoolGet(r)
    \/ \E r \in Reqs : Observed /\ PoolGetErr(r)
    \/ \E r \in Reqs : Observed /\ get_user_handler(r)
    \/ \E r \in Reqs : Observed /\ create_user_handler(r)
    \/ \E r \in Reqs : Observed /\ list_users_handler(r)
    \/ \E r \in Reqs : Observed /\ delete_user_handler(r)
    \/ \E r \in Reqs : Observed /\ update_user_handler_fetch(r)
    \/ \E r \in Reqs : Observed /\ update_user_handler_write(r)

SpecConc == InitConc /\ [][NextConc]_vars

LoginEmails == {"a@x.com", "b@x.com"}

\* Users come and go, and login is called, under each environment.
NextLogin ==
    \/ Observe
    \/ Observed /\ Start(FirstTask, "create", 0, NewUserFull)
    \/ \E user_id \in Ids, p \in Plaintexts : Observed /\ Start(FirstTask, "update", user_id, OnlyPassword(p))
    \/ \E user_id \in Ids : Observed /\ Start(FirstTask, "delete", user_id, NewUserEmpty)
    \/ Observed /\ PoolGet(FirstTask)
    \/ Observed /\ create_user_handler(FirstTask)
    \/ Observed /\ delete_user_handler(FirstTask)
    \/ Observed /\ update_user_handler_fetch(FirstTask)
    \/ Observed /\ update_user_handler_write(FirstTask)
    \/ \E p_email \in LoginEmails, p_password \in Plaintexts : Observed /\ Login(p_email, p_password)

SpecLogin == InitLogin /\ [][NextLogin]_vars

\* ---------------------------------------------------------------- claims
RECURSIVE HeldBy(_)
HeldBy(S) == IF S = {} THEN 0
             ELSE LET r == CHOOSE x \in S : TRUE IN req[r].held + HeldBy(S \ {r})

Thm_C2_CreateGetDeleteGet ==
    /\ (last.kind = "create" /\ last.status = 200) =>
         \E row \in last.body :
            /\ last.body = {row}
            /\ row = created[row.id]
            /\ row.id \in DOMAIN users /\ users[row.id] = row
    /\ (last.kind = "get" /\ last.outcome \notin {"DatabaseError", "PoolError"}) =>
         IF last.user_id \in DOMAIN users
         THEN /\ last.status = 200
              /\ last.body = {users[last.user_id]}
              /\ last.user_id \notin modified => last.body = {created[last.user_id]}
         ELSE last.status = 404 /\ last.body = {}
    /\ (last.kind = "delete" /\ last.outcome = "Ok") => last.status = 200
    /\ (last.kind = "get" /\ last.afterDelete) =>
         /\ last.status # 200 /\ last.body = {}
         /\ last.outcome # "PoolError" => last.status = 404
    /\ \A id \in deleted : id \notin DOMAIN users
    /\ \A id \in DOMAIN created : id \notin deleted => id \in DOMAIN users

\* A GET that arrived after its id was deleted is answered while another user is stored.
Witness_C2 ==
    /\ last.kind = "get" /\ last.afterDelete /\ last.status = 404
    /\ last.user_id \in DOMAIN created
    /\ \E id \in DOMAIN users : id # last.user_id

\* C6: a DELETE request for an id that is not stored leaves the relation as
\* it was and never ends in a not-found error: unless the pool or the
\* database itself failed (answer 500, nothing removed), delete_user returns
\* count 0 and the answer is 200; for a stored id it returns count 1, the
\* answer is 200 and that row and no other is removed.
Thm_C6_DeleteCount ==
    [][(last = NoResponse /\ last'.kind = "delete") =>
         LET id == last'.user_id
         IN /\ last'.outcome \in {"Ok", "DatabaseError", "PoolError"}
            /\ last'.outcome # "Ok" => users' = users /\ last'.status = 500
            /\ last'.outcome = "Ok" =>
                 /\ last'.status = 200
                 /\ IF id \in DOMAIN users
                    THEN /\ last'.count = 1
                         /\ DOMAIN users' = DOMAIN users \ {id}
                         /\ \A i \in DOMAIN users' : users'[i] = users[i]
                    ELSE last'.count = 0 /\ users' = users]_vars

\* A delete of an id that is not stored was answered 200 with count 0 while a user is stored.
Witness_C6 ==
    /\ last.kind = "delete" /\ last.outcome = "Ok" /\ last.count = 0 /\ last.status = 200
    /\ last.user_id \notin DOMAIN created
    /\ users # <<>>

\* C8: a task holds at most one connection, and holds it exactly while its
\* closure runs; the connections held and the idle ones add up to the pool
\* size, so never more than the pool size are held; when every task has
\* ended (by a response or by a panic) the pool is full again.
Thm_C8_PoolAccounting ==
    /\ \A r \in Reqs : /\ req[r].held \in {0, 1}
                       /\ req[r].held = 1 <=> req[r].pc \in {"svc", "fetched"}
    /\ free >= 0
    /\ HeldBy(Reqs) <= poolSize
    /\ free + HeldBy(Reqs) = poolSize
    /\ AllIdle => free = poolSize

\* An update of a missing id has panicked while another task waits for the
\* connection it held, which is back in the pool.
Witness_C8 ==
    /\ last.kind = "update" /\ last.status = 0 /\ last.outcome = "NotFound"
    /\ \E r \in Reqs : req[r].pc = "pool"
    /\ free = poolSize

\* C3 (as claimed): with JWT_SECRET configured, login for a stored user and
\* the password its hash verifies returns a token signed with that secret
\* whose subject is the user's email (unless the lookup itself fails), and a
\* token is returned only for a stored user whose password verifies.
Claim_C3_LoginIssuesToken ==
    loginOut # NoLogin =>
      LET f == loginOut.found
          valid == /\ f # NoUser
                   /\ f.password_hash # None
                   /\ bcrypt_verify(loginOut.password, unwrap(f.password_hash)) = "true"
      IN /\ (valid /\ env[JwtSecretKey] # None /\ loginOut.out.error # "DatabaseError") =>
              /\ loginOut.out.result = "Ok"
              /\ loginOut.out.token.key = unwrap(env[JwtSecretKey])
              /\ loginOut.out.token.sub = loginOut.email
         /\ loginOut.out.result = "Ok" => valid

\* C4 (as claimed): with JWT_SECRET configured, login with an email no
\* stored user has and login with a stored email and a wrong password both
\* return the not-found error.
Claim_C4_SameErrorKind ==
    (loginOut # NoLogin /\ env[JwtSecretKey] # None /\ loginOut.out.error # "DatabaseError") =>
      LET f == loginOut.found
          unknown == f = NoUser
          wrong == /\ f # NoUser
                   /\ bcrypt_verify(loginOut.password, unwrap(f.password_hash)) = "false"
      IN (unknown \/ wrong) => loginOut.out.result = "Err" /\ loginOut.out.error = "NotFound"

\* C5 (as claimed): an update request for an id that no stored user has does
\* not panic: it is answered with the not-found status, and the relation is
\* left as it was.
Claim_C5_UpdateMissingNoCrash ==
    [][(last = NoResponse /\ last'.kind = "update" /\ last'.outcome = "NotFound"
          /\ last'.user_id \notin DOMAIN users) =>
         (last'.status = 404 /\ users' = users)]_vars

\* C7 (as claimed): whatever the handler, an Ok result is answered 200, a
\* lookup miss 404, and any other database or pool error 500.
Claim_C7_StatusMapping ==
    /\ last.outcome = "Ok" => last.status = 200
    /\ last.outcome = "NotFound" => last.status = 404
    /\ last.outcome \in {"DatabaseError", "PoolError"} => last.status = 500

\* C9 (as claimed): an update answered 200 leaves every column that its body
\* does not supply, password_hash included, as it was stored before.
Claim_C9_AbsentFieldsKept ==
    [][(last = NoResponse /\ last'.kind = "update" /\ last'.status = 200) =>
         LET id == last'.user_id
             q == last'.query
         IN /\ q.pseudo = None => users'[id].pseudo = users[id].pseudo
            /\ q.email = None => users'[id].email = users[id].email
            /\ q.role = None => users'[id].role = users[id].role
            /\ q.password_hash = None => users'[id].password_hash = users[id].password_hash]_vars

\* C10 (as claimed): no update is lost: each of pseudo, email and role of a
\* stored row is the value of the last request answered 200 that supplied it.
Claim_C10_NoLostUpdate ==
    \A id \in DOMAIN users :
       /\ users[id].pseudo = acked[id].pseudo
       /\ users[id].email = acked[id].email
       /\ users[id].role = acked[id].role
====
